---------------------------- MODULE Spec2Model ----------------------------
(***************************************************************************)
(* Model of the portfolio calculations of the Binance dashboard            *)
(* (src/calculations.py) and of the symbol guessing of its calling layer   *)
(* (src/app.py).                                                           *)
(*                                                                         *)
(* Numbers.  The program computes with Python floats.  The model computes  *)
(* with exact rationals, a pair <<n, d>> with d > 0 in lowest terms: the   *)
(* properties checked are those of the accounting method, not of binary    *)
(* rounding.                                                               *)
(*                                                                         *)
(* Strings.  A string is the sequence of its characters, so that           *)
(* str.endswith, str.startswith, slicing, concatenation and str.upper are  *)
(* computed, not assumed.                                                  *)
(***************************************************************************)
EXTENDS Integers, Sequences, FiniteSets, TLC

(***************************************************************************)
(* Bounds of the model.                                                    *)
(***************************************************************************)
\* Longest trade list replayed.
MaxTrades == 3
\* Most balance records, over all sources, in one aggregation.
MaxEntries == 3
\* Most assets held, and most symbols priced, in one build.
MaxHeld == 2
MaxSymbols == 2
\* Most rows in one evaluation of the alerts.
MaxRows == 2

(***************************************************************************)
(* Exact rational arithmetic (stands for float arithmetic).                *)
(***************************************************************************)
Abs(n) == IF n < 0 THEN -n ELSE n

RECURSIVE GCD(_, _)
GCD(a, b) == IF b = 0 THEN a ELSE GCD(b, a % b)

Norm(n, d) ==
    LET s == IF d < 0 THEN -1 ELSE 1
        g == GCD(Abs(n), Abs(d))
    IN  <<(s * n) \div g, (s * d) \div g>>

R(n) == <<n, 1>>
Zero == R(0)
RAdd(a, b) == Norm(a[1] * b[2] + b[1] * a[2], a[2] * b[2])
RSub(a, b) == Norm(a[1] * b[2] - b[1] * a[2], a[2] * b[2])
RMul(a, b) == Norm(a[1] * b[1], a[2] * b[2])
RDiv(a, b) == Norm(a[1] * b[2], a[2] * b[1])
RLt(a, b) == a[1] * b[2] < b[1] * a[2]
RLe(a, b) == a[1] * b[2] <= b[1] * a[2]
RMin(a, b) == IF RLt(b, a) THEN b ELSE a
\* Python truthiness of a float: nonzero.
Truthy(a) == a[1] # 0

(***************************************************************************)
(* Strings as character sequences.                                         *)
(***************************************************************************)
\* str.upper on the letters the model uses.
UpperChar(c) ==
    CASE c = "b" -> "B"
      [] c = "t" -> "T"
      [] c = "c" -> "C"
      [] OTHER -> c

Upper(s) == [i \in 1..Len(s) |-> UpperChar(s[i])]

EndsWith(s, suf) ==
    /\ Len(suf) <= Len(s)
    /\ SubSeq(s, Len(s) - Len(suf) + 1, Len(s)) = suf

StartsWith(s, pre) ==
    /\ Len(pre) <= Len(s)
    /\ SubSeq(s, 1, Len(pre)) = pre

USDT == <<"U", "S", "D", "T">>
BUSD == <<"B", "U", "S", "D">>
FDUSD == <<"F", "D", "U", "S", "D">>
TUSD == <<"T", "U", "S", "D">>
USDC == <<"U", "S", "D", "C">>
BTC == <<"B", "T", "C">>
BNB == <<"B", "N", "B">>
ETH == <<"E", "T", "H">>
TRY == <<"T", "R", "Y">>
EUR == <<"E", "U", "R">>
\* A quote asset Binance lists that QUOTE_ASSETS does not know.
DAI == <<"D", "A", "I">>

QUOTE_ASSETS == <<USDT, BUSD, FDUSD, TUSD, USDC, BTC, BNB, ETH, TRY, EUR>>

\* split_symbol: the first known quote, in list order, that the uppercased
\* symbol ends with; raised when there is none (ValueError).
split_symbol(sym) ==
    LET s == Upper(sym)
        hits == {i \in 1..Len(QUOTE_ASSETS) : EndsWith(s, QUOTE_ASSETS[i])}
    IN  IF hits = {}
        THEN [raised |-> TRUE, base |-> <<>>, quote |-> <<>>]
        ELSE LET i == CHOOSE k \in hits : \A j \in hits : k <= j
                 q == QUOTE_ASSETS[i]
             IN  [raised |-> FALSE,
                  base |-> SubSeq(s, 1, Len(s) - Len(q)),
                  quote |-> q]


(***************************************************************************)
(* compute_symbol_trade_stats: the replay of one symbol's trades.          *)
(***************************************************************************)
BTCUSDT == BTC \o USDT
BTCDAI == BTC \o DAI

\* sorted(trades, key=time): a stable sort.  InsertByTime puts t behind
\* every element whose time is not greater.
RECURSIVE InsertByTime(_, _)
InsertByTime(s, t) ==
    IF s = <<>> THEN <<t>>
    ELSE IF s[Len(s)].time <= t.time THEN Append(s, t)
    ELSE Append(InsertByTime(SubSeq(s, 1, Len(s) - 1), t), s[Len(s)])

\* A replay that keeps the order the trade source delivered.
UnsortedTrades(ts) == ts

RECURSIVE SortFrom(_, _, _)
SortFrom(ts, i, acc) ==
    IF i > Len(ts) THEN acc ELSE SortFrom(ts, i + 1, InsertByTime(acc, ts[i]))

sorted(ts) == SortFrom(ts, 1, <<>>)

\* The position a replay starts from.
InitialPosition ==
    [position_qty |-> Zero, position_cost |-> Zero, realized_pnl |-> Zero]

fee_quote(trade, quote) ==
    IF trade.commissionAsset = quote THEN R(trade.commission) ELSE Zero

fee_base(trade, base) ==
    IF trade.commissionAsset = base THEN R(trade.commission) ELSE Zero

\* A buy that leaves its fee in the quote asset out of the position's cost.
ApplyBuyWithoutFee(pos, trade, base, quote) ==
    LET qty == R(trade.qty)
        price == R(trade.price)
        effective_qty == RSub(qty, fee_base(trade, base))
    IN  [pos EXCEPT !.position_qty = RAdd(pos.position_qty, effective_qty),
                    !.position_cost = RAdd(pos.position_cost, RMul(qty, price))]

\* The buy branch of the loop body.
ApplyBuy(pos, trade, base, quote) ==
    LET qty == R(trade.qty)
        price == R(trade.price)
        effective_qty == RSub(qty, fee_base(trade, base))
        cost == RAdd(RMul(qty, price), fee_quote(trade, quote))
    IN  [pos EXCEPT !.position_qty = RAdd(pos.position_qty, effective_qty),
                    !.position_cost = RAdd(pos.position_cost, cost)]

\* sell_qty = min(qty, position_qty)
sell_qty(pos, trade) == RMin(R(trade.qty), pos.position_qty)

\* avg_cost = position_cost / position_qty if position_qty else 0.0
avg_cost(pos) ==
    IF Truthy(pos.position_qty)
    THEN RDiv(pos.position_cost, pos.position_qty)
    ELSE Zero

\* A sell that takes its proceeds, not its share of the cost, out of the
\* position's cost.
ApplySellAtPrice(pos, trade, base, quote) ==
    LET s == RMin(R(trade.qty), pos.position_qty)
        proceeds == RSub(RMul(s, R(trade.price)), fee_quote(trade, quote))
    IN  IF RLe(s, Zero)
        THEN pos
        ELSE [position_qty |-> RSub(pos.position_qty, s),
              position_cost |-> RSub(pos.position_cost, proceeds),
              realized_pnl |-> RAdd(pos.realized_pnl, RSub(proceeds,
                                   RMul(avg_cost(pos), s)))]

\* The sell branch of the loop body.
ApplySell(pos, trade, base, quote) ==
    LET s == sell_qty(pos, trade)
        proceeds == RSub(RMul(s, R(trade.price)), fee_quote(trade, quote))
        sold_cost == RMul(avg_cost(pos), s)
    IN  IF RLe(s, Zero)
        THEN pos
        ELSE [position_qty |-> RSub(pos.position_qty, s),
              position_cost |-> RSub(pos.position_cost, sold_cost),
              realized_pnl |-> RAdd(pos.realized_pnl, RSub(proceeds, sold_cost))]

\* One iteration of the loop over the sorted trades.
ReplayTrade(pos, trade, base, quote) ==
    IF trade.isBuyer
    THEN ApplyBuy(pos, trade, base, quote)
    ELSE ApplySell(pos, trade, base, quote)

\* average_price, position_cost, realized_pnl: what the function returns.
StatsOf(pos) == <<avg_cost(pos), pos.position_cost, pos.realized_pnl>>

RECURSIVE ReplayAll(_, _, _, _)
ReplayAll(pos, ts, base, quote) ==
    IF ts = <<>> THEN pos
    ELSE ReplayAll(ReplayTrade(pos, Head(ts), base, quote), Tail(ts), base, quote)

\* The whole function, as build_portfolio_rows calls it.
compute_symbol_trade_stats(sym, ts) ==
    IF ts = <<>>
    THEN [raised |-> FALSE, stats |-> <<Zero, Zero, Zero>>]
    ELSE LET sp == split_symbol(sym)
         IN  IF sp.raised
             THEN [raised |-> TRUE, stats |-> <<Zero, Zero, Zero>>]
             ELSE [raised |-> FALSE,
                   stats |-> StatsOf(ReplayAll(InitialPosition, sorted(ts),
                                               sp.base, sp.quote))]

(***************************************************************************)
(* Python dicts keep insertion order: a dict is a sequence of [key, val]   *)
(* pairs with distinct keys.                                               *)
(***************************************************************************)
DictKeys(d) == {d[i].key : i \in 1..Len(d)}

DictHas(d, k) == \E i \in 1..Len(d) : d[i].key = k

\* d.get(k, default)
DictGet(d, k, default) ==
    IF DictHas(d, k)
    THEN d[CHOOSE i \in 1..Len(d) : d[i].key = k].val
    ELSE default

\* d[k] = v: a new key goes last, a known key keeps its place.
DictSet(d, k, v) ==
    IF DictHas(d, k)
    THEN [i \in 1..Len(d) |-> IF d[i].key = k THEN [key |-> k, val |-> v] ELSE d[i]]
    ELSE Append(d, [key |-> k, val |-> v])

\* {k: v for k, v in d.items() if keep(v)} is SelectSeq.

(***************************************************************************)
(* aggregate_positions.  A field of a balance record is <<>> when the      *)
(* record lacks it (entry.get gives None) and <<v>> when it holds v.       *)
(***************************************************************************)
Absent == <<>>
Present(f) == f # Absent

\* x or y, on optional numbers: x when it is present and nonzero.
Or(x, y) == IF Present(x) /\ x[1] # 0 THEN x ELSE y

\* float(x or 0)
OrZero(x) == IF Present(x) /\ x[1] # 0 THEN R(x[1]) ELSE Zero

\* An amount that takes the first field the record has, whatever its value.
FirstPresentQty(e) ==
    LET first == IF Present(e.quantity) THEN e.quantity
                 ELSE IF Present(e.free) THEN e.free
                 ELSE e.amount
        locked == IF Present(e.locked) THEN R(e.locked[1]) ELSE Zero
    IN  RAdd(OrZero(first), locked)

\* qty = float(quantity or free or amount or 0) + float(entry.get("locked", 0))
EntryQty(e) ==
    LET locked == IF Present(e.locked) THEN R(e.locked[1]) ELSE Zero
    IN  RAdd(OrZero(Or(Or(e.quantity, e.free), e.amount)), locked)

\* if not asset: the record has no asset, or an empty one.
NoAsset(e) == IF e.asset = Absent THEN TRUE ELSE e.asset[1] = <<>>

\* holdings[asset] = holdings.get(asset, 0.0) + qty
AddHolding(h, asset, q) == DictSet(h, asset, RAdd(DictGet(h, asset, Zero), q))

\* A filter that keeps the assets whose total is zero.
KeepNonNegative(h) == SelectSeq(h, LAMBDA kv : RLe(Zero, kv.val))

\* {asset: qty for asset, qty in holdings.items() if qty > 0}
KeepPositive(h) == SelectSeq(h, LAMBDA kv : RLt(Zero, kv.val))

(***************************************************************************)
(* build_portfolio_rows.  An optional string is <<>> for None and <<s>>    *)
(* for the string s.                                                       *)
(***************************************************************************)
\* match_symbol: asset + quote_symbol when the price map has it, else the
\* first key of the price map, in its order, that starts with the asset.
match_symbol(asset, pm, quote) ==
    LET preferred == asset \o quote
        hits == {i \in 1..Len(pm) : StartsWith(pm[i].key, asset)}
    IN  IF DictHas(pm, preferred) THEN <<preferred>>
        ELSE IF hits = {} THEN <<>>
        ELSE <<pm[CHOOSE k \in hits : \A j \in hits : k <= j].key>>

\* if not symbol: None or the empty string.
NoSymbol(m) == IF m = <<>> THEN TRUE ELSE m[1] = <<>>

\* guess_symbol of the calling layer: the asset in upper case with the first
\* of the listed quotes the price map has, else the first key of the price
\* map, in its order, that starts with the asset in upper case.
guess_symbol(asset, pm, preferred_quote) ==
    LET up == Upper(asset)
        quotes == <<preferred_quote, USDT, BUSD, FDUSD, TUSD, BTC, BNB, ETH>>
        found == {i \in 1..Len(quotes) : DictHas(pm, up \o quotes[i])}
        hits == {i \in 1..Len(pm) : StartsWith(pm[i].key, up)}
    IN  IF found # {}
        THEN <<up \o quotes[CHOOSE k \in found : \A j \in found : k <= j]>>
        ELSE IF hits = {} THEN <<>>
        ELSE <<pm[CHOOSE k \in hits : \A j \in hits : k <= j].key>>

\* A row that keeps the replay's invested when there is no cost basis.
PositionWithoutFallback(asset, quantity, current_price, stats) ==
    LET invested == stats[2]
        current_value == RMul(quantity, current_price)
        unrealized == RSub(current_value, invested)
    IN  [asset |-> asset,
         quantity |-> quantity,
         average_buy_price |-> stats[1],
         invested |-> invested,
         current_price |-> current_price,
         current_value |-> current_value,
         unrealized_pnl |-> unrealized,
         roi_pct |-> IF Truthy(invested)
                     THEN RMul(RDiv(unrealized, invested), R(100))
                     ELSE Zero,
         realized_pnl |-> stats[3]]

\* The SymbolPosition of one asset, from its replay's result.
Position(asset, quantity, current_price, stats) ==
    LET average_price == stats[1]
        invested == IF stats[2] = Zero /\ average_price = Zero
                    THEN RMul(quantity, current_price)
                    ELSE stats[2]
        current_value == RMul(quantity, current_price)
        unrealized == RSub(current_value, invested)
    IN  [asset |-> asset,
         quantity |-> quantity,
         average_buy_price |-> average_price,
         invested |-> invested,
         current_price |-> current_price,
         current_value |-> current_value,
         unrealized_pnl |-> unrealized,
         roi_pct |-> IF Truthy(invested)
                     THEN RMul(RDiv(unrealized, invested), R(100))
                     ELSE Zero,
         realized_pnl |-> stats[3]]

NoTotals ==
    [total_invested |-> Zero, total_value |-> Zero, realized_total |-> Zero]

\* Totals that leave the realized P&L of a row out.
AddTotalsWithoutRealized(t, row) ==
    [total_invested |-> RAdd(t.total_invested, row.invested),
     total_value |-> RAdd(t.total_value, row.current_value),
     realized_total |-> t.realized_total]

\* total_invested += invested; total_value += current_value;
\* realized_total += realized_pnl
AddTotals(t, row) ==
    [total_invested |-> RAdd(t.total_invested, row.invested),
     total_value |-> RAdd(t.total_value, row.current_value),
     realized_total |-> RAdd(t.realized_total, row.realized_pnl)]

\* PortfolioSummary(...)
SummaryOf(t) ==
    [total_invested |-> t.total_invested,
     total_value |-> t.total_value,
     net_unrealized |-> RSub(t.total_value, t.total_invested),
     realized_pnl |-> t.realized_total]

(***************************************************************************)
(* evaluate_alerts.  A strategy is a record of its four thresholds, each   *)
(* <<>> when the strategy lacks it (strat.get gives None) and <<v>> when   *)
(* it holds v.  A message is the record of what its text is made of.       *)
(***************************************************************************)
NoStrategy ==
    [low_buy_1 |-> <<>>, low_buy_2 |-> <<>>, high_sell_1 |-> <<>>, high_sell_2 |-> <<>>]

\* strategies.get(row.asset.upper()): None and the empty dict are both
\* NoStrategy, and both are skipped by "if not strat".
StrategyOf(strats, asset) == DictGet(strats, Upper(asset), NoStrategy)

\* The truth value of a threshold: present and not zero.
Set(th) == IF th = <<>> THEN FALSE ELSE th[1] # 0

Message(row, text, cmp, th) ==
    [asset |-> row.asset, text |-> text, price |-> row.current_price,
     cmp |-> cmp, threshold |-> th[1]]

LowBuy(row, th, text) ==
    IF Set(th)
    THEN IF RLe(row.current_price, R(th[1]))
         THEN <<Message(row, text, "<=", th)>> ELSE <<>>
    ELSE <<>>

HighSell(row, th, text) ==
    IF Set(th)
    THEN IF RLe(R(th[1]), row.current_price)
         THEN <<Message(row, text, ">=", th)>> ELSE <<>>
    ELSE <<>>

\* Four tests of which only the first that holds adds a message.
FirstAlertOnly(row, strat) ==
    LET all == LowBuy(row, strat.low_buy_1, "reached Low Buy 1 at")
               \o LowBuy(row, strat.low_buy_2, "reached Low Buy 2 at")
               \o HighSell(row, strat.high_sell_1, "hit High Sell 1 at")
               \o HighSell(row, strat.high_sell_2, "hit High Sell 2 at")
    IN  IF all = <<>> THEN <<>> ELSE <<Head(all)>>

\* The four tests of one row, each adding its message.
RowAlerts(row, strat) ==
    LowBuy(row, strat.low_buy_1, "reached Low Buy 1 at")
    \o LowBuy(row, strat.low_buy_2, "reached Low Buy 2 at")
    \o HighSell(row, strat.high_sell_1, "hit High Sell 1 at")
    \o HighSell(row, strat.high_sell_2, "hit High Sell 2 at")

(***************************************************************************)
(* State.                                                                  *)
(***************************************************************************)
VARIABLES
    \* compute_symbol_trade_stats, one call
    symbol,         \* argument
    trades,         \* argument
    pc,             \* "idle", "call", "loop", "done", "raised"
    base_asset,
    quote_asset,
    queue,          \* the sorted trades the loop has yet to visit
    pos,            \* position_qty, position_cost, realized_pnl
    result,         \* the returned (average_price, invested, realized_pnl)
    \* aggregate_positions, one call
    sources,        \* argument: the balance sources, each a list of entries
    pending,        \* what the two loops have yet to visit
    entry,          \* the loop variable of the inner loop
    qty,            \* the amount computed for entry
    holdings,       \* the dict the loops fill
    aggPc,          \* "idle", "loop", "done"
    aggResult,      \* the returned dict
    \* build_portfolio_rows, one call
    build_holdings, \* argument holdings: asset -> quantity
    price_map,      \* argument: symbol -> price
    trade_lookup,   \* argument: symbol -> trades
    quote_symbol,   \* argument
    todo,           \* the holdings items the loop has yet to visit
    rows,           \* the rows built so far
    totals,         \* total_invested, total_value, realized_total
    summary,        \* the returned PortfolioSummary
    buildPc,        \* "idle", "loop", "done", "raised"
    \* evaluate_alerts, one call, on the argument rows
    strategies,     \* argument: asset -> strategy record
    alertTodo,      \* the rows the loop has yet to visit
    alerts,         \* the messages so far
    alertPc,        \* "idle", "loop", "done"
    \* main of the calling layer, from the matching of the holdings to the
    \* call of build_portfolio_rows; its holdings, price_map, quote_symbol
    \* and trade_lookup are the objects it passes to that call
    symbols,        \* asset -> guessed symbol
    mainTodo,       \* what the current loop of main has yet to visit
    mainPc          \* "idle", "symbols", "trades", "build", "stopped"

statsVars == <<symbol, trades, pc, base_asset, quote_asset, queue, pos, result>>

aggVars == <<sources, pending, entry, qty, holdings, aggPc, aggResult>>

buildVars == <<build_holdings, price_map, trade_lookup, quote_symbol, todo,
               rows, totals, summary, buildPc>>

alertVars == <<strategies, alertTodo, alerts, alertPc>>

mainVars == <<symbols, mainTodo, mainPc>>

vars == <<statsVars, aggVars, buildVars, alertVars, mainVars>>

(***************************************************************************)
(* Inputs of the replay.                                                   *)
(***************************************************************************)
Quantities == {1, 2}
Prices == {100, 150}
NoFee == <<0, USDT>>

Fill(q, p, b, f, t) ==
    [qty |-> q, price |-> p, isBuyer |-> b, commission |-> f[1],
     commissionAsset |-> f[2], time |-> t]

\* Buys: without a fee, with a fee in the quote asset, and with a fee in
\* the base asset that is less than, equal to and more than the quantity.
BuyFills(t) ==
    {Fill(q, p, TRUE, NoFee, t) : q \in Quantities, p \in Prices}
    \cup {Fill(1, 100, TRUE, <<1, USDT>>, t),
          Fill(2, 150, TRUE, <<1, BTC>>, t),
          Fill(1, 100, TRUE, <<1, BTC>>, t),
          Fill(1, 100, TRUE, <<2, BTC>>, t)}

\* Sells: without a fee and with a fee in the quote asset.
SellFills(t) ==
    {Fill(q, p, FALSE, NoFee, t) : q \in Quantities, p \in Prices}
    \cup {Fill(1, 150, FALSE, <<1, USDT>>, t),
          Fill(2, 100, FALSE, <<1, USDT>>, t)}

Fills(t) == BuyFills(t) \cup SellFills(t)

\* The trade lists of length n whose i-th trade has time i.
TimedLists(n) ==
    {[i \in 1..n |-> [f[i] EXCEPT !.time = i]] : f \in [1..n -> Fills(0)]}

\* Trades without fees, with any time: the order of delivery is free, and
\* times may tie.
PlainFills ==
    {Fill(1, 100, TRUE, NoFee, t) : t \in 1..MaxTrades}
    \cup {Fill(2, 150, TRUE, NoFee, t) : t \in 1..MaxTrades}
    \cup {Fill(1, 150, FALSE, NoFee, t) : t \in 1..MaxTrades}

PlainLists(n) == [1..n -> PlainFills]

StatsIdle ==
    /\ base_asset = <<>>
    /\ quote_asset = <<>>
    /\ queue = <<>>
    /\ pos = InitialPosition
    /\ result = <<Zero, Zero, Zero>>

NoEntry == [asset |-> Absent, quantity |-> Absent, free |-> Absent,
            amount |-> Absent, locked |-> Absent]

AlertIdle ==
    /\ strategies = <<>>
    /\ alertTodo = <<>>
    /\ alerts = <<>>
    /\ alertPc = "idle"

BuildIdle ==
    /\ build_holdings = <<>>
    /\ price_map = <<>>
    /\ trade_lookup = <<>>
    /\ quote_symbol = <<>>
    /\ todo = <<>>
    /\ rows = <<>>
    /\ totals = NoTotals
    /\ summary = SummaryOf(NoTotals)
    /\ buildPc = "idle"

MainIdle ==
    /\ symbols = <<>>
    /\ mainTodo = <<>>
    /\ mainPc = "idle"

AggIdle ==
    /\ sources = <<>>
    /\ pending = <<>>
    /\ entry = NoEntry
    /\ qty = Zero
    /\ holdings = <<>>
    /\ aggPc = "idle"
    /\ aggResult = <<>>

\* A call: a symbol, and a trade list for it.  A symbol that split_symbol
\* cannot split is called with at most one trade.
CallWith(lists) ==
    /\ AggIdle
    /\ BuildIdle
    /\ AlertIdle
    /\ MainIdle
    /\ symbol \in {BTCUSDT, BTCDAI}
    /\ trades \in lists
    /\ symbol = BTCDAI => Len(trades) <= 1
    /\ pc = "call"
    /\ StatsIdle

\* Calls with trades of every kind, delivered in time order.
InitReplay == \E n \in 0..MaxTrades : CallWith(TimedLists(n))

\* Calls with plain trades, delivered in any order.
InitOrder == \E n \in 0..MaxTrades : CallWith(PlainLists(n))

\* if not trades: return 0.0, 0.0, 0.0
StatsEmpty ==
    /\ pc = "call"
    /\ trades = <<>>
    /\ pc' = "done"
    /\ result' = <<Zero, Zero, Zero>>
    /\ UNCHANGED <<symbol, trades, base_asset, quote_asset, queue, pos>>
    /\ UNCHANGED <<aggVars, buildVars, alertVars, mainVars>>

\* split_symbol raises: the call ends with ValueError.
StatsRaise ==
    /\ pc = "call"
    /\ trades # <<>>
    /\ split_symbol(symbol).raised
    /\ pc' = "raised"
    /\ UNCHANGED <<symbol, trades, base_asset, quote_asset, queue, pos, result>>
    /\ UNCHANGED <<aggVars, buildVars, alertVars, mainVars>>

\* The assignments before the loop, and the sort the loop iterates over.
StatsStart ==
    /\ pc = "call"
    /\ trades # <<>>
    /\ ~split_symbol(symbol).raised
    /\ base_asset' = split_symbol(symbol).base
    /\ quote_asset' = split_symbol(symbol).quote
    /\ pos' = InitialPosition
    /\ queue' = sorted(trades)
    /\ pc' = "loop"
    /\ UNCHANGED <<symbol, trades, result>>
    /\ UNCHANGED <<aggVars, buildVars, alertVars, mainVars>>

\* One iteration of the loop.
StatsStep ==
    /\ pc = "loop"
    /\ queue # <<>>
    /\ pos' = ReplayTrade(pos, Head(queue), base_asset, quote_asset)
    /\ queue' = Tail(queue)
    /\ UNCHANGED <<symbol, trades, pc, base_asset, quote_asset, result>>
    /\ UNCHANGED <<aggVars, buildVars, alertVars, mainVars>>

\* The loop is over: average_price and the return.
StatsReturn ==
    /\ pc = "loop"
    /\ queue = <<>>
    /\ result' = StatsOf(pos)
    /\ pc' = "done"
    /\ UNCHANGED <<symbol, trades, base_asset, quote_asset, queue, pos>>
    /\ UNCHANGED <<aggVars, buildVars, alertVars, mainVars>>

NextReplay ==
    \/ StatsEmpty
    \/ StatsRaise
    \/ StatsStart
    \/ StatsStep
    \/ StatsReturn

SpecReplay == InitReplay /\ [][NextReplay]_vars

SpecOrder == InitOrder /\ [][NextReplay]_vars

(***************************************************************************)
(* Properties of the replay.                                               *)
(***************************************************************************)
\* A sell is about to be replayed.
SellNext == pc = "loop" /\ queue # <<>> /\ ~Head(queue).isBuyer

\* The average cost of a position: cost / quantity, 0 for no quantity.
AverageCost(p) ==
    IF p.position_qty = Zero THEN Zero ELSE RDiv(p.position_cost, p.position_qty)

\* C1: during the replay of any trade list of the Trade Record shape the
\* position never goes negative (position_qty >= 0, position_cost >= 0), and
\* the returned average_price and invested are >= 0.
C1_PositionNeverNegative ==
    /\ pc \in {"loop", "done"} =>
          /\ RLe(Zero, pos.position_qty)
          /\ RLe(Zero, pos.position_cost)
    /\ pc = "done" => RLe(Zero, result[1]) /\ RLe(Zero, result[2])

\* C3: a sell replayed while position_qty is 0 changes neither realized_pnl
\* nor the position, and a sell of more than position_qty leaves
\* position_qty = 0.
C3_SellSkippedOrClamped ==
    [][SellNext =>
          /\ pos.position_qty = Zero => pos' = pos
          /\ RLt(pos.position_qty, R(Head(queue).qty)) =>
                pos'.position_qty = Zero]_vars

\* What C3 says of a position that is not negative.
C3_ClampedFromNonNegative ==
    [][SellNext /\ RLe(Zero, pos.position_qty) =>
          /\ pos.position_qty = Zero => pos' = pos
          /\ RLt(pos.position_qty, R(Head(queue).qty)) =>
                pos'.position_qty = Zero]_vars

\* buy 2 @ 100, then sell 1 @ 150, no commission.
C4_Example ==
    <<Fill(2, 100, TRUE, NoFee, 1), Fill(1, 150, FALSE, NoFee, 2)>>

C4_ExampleResult ==
    (pc = "done" /\ symbol = BTCUSDT /\ trades = C4_Example)
        => result = <<R(100), R(100), R(50)>>

\* C4: a sell of less than the position leaves the average cost
\* (position_cost / position_qty) as it was and adds
\* sell_qty*price - fee_quote - avg_cost*sell_qty to realized_pnl; no sell
\* that leaves a position changes the average cost; and buy 2 @ 100, sell
\* 1 @ 150 returns average_price 100, invested 100, realized_pnl 50.
C4_MovingAverageCost ==
    /\ [][SellNext =>
            LET t == Head(queue)
                s == RMin(R(t.qty), pos.position_qty)
                fee == IF t.commissionAsset = quote_asset
                       THEN R(t.commission) ELSE Zero
                avg == AverageCost(pos)
                gain == RSub(RSub(RMul(s, R(t.price)), fee), RMul(avg, s))
            IN  /\ (RLt(Zero, s) /\ RLt(s, pos.position_qty)) =>
                      /\ AverageCost(pos') = avg
                      /\ pos'.realized_pnl = RAdd(pos.realized_pnl, gain)
                      /\ pos'.position_qty = RSub(pos.position_qty, s)
                /\ pos'.position_qty # Zero => AverageCost(pos') = avg]_vars
    /\ []C4_ExampleResult

\* The example has been replayed: its sell took part of the position.
C4_Witness ==
    /\ pc = "done"
    /\ symbol = BTCUSDT
    /\ trades = C4_Example
    /\ result = <<R(100), R(100), R(50)>>

\* The times of a trade list differ pairwise.
DistinctTimes(ts) ==
    \A i, j \in 1..Len(ts) : i # j => ts[i].time # ts[j].time

Permuted(ts, p) == [i \in 1..Len(ts) |-> ts[p[i]]]

\* out is ts in ascending time order, ties in the order of ts.
StablySorted(out, ts) ==
    /\ Len(out) = Len(ts)
    /\ \E p \in Permutations(1..Len(ts)) :
          /\ out = Permuted(ts, p)
          /\ \A i, j \in 1..Len(ts) :
                i < j => \/ ts[p[i]].time < ts[p[j]].time
                         \/ ts[p[i]].time = ts[p[j]].time /\ p[i] < p[j]

\* C10: the loop visits the trades in ascending time order, ties in input
\* order, and for a trade list with pairwise distinct times every
\* permutation of the list returns the same result.
C10_OrderIndependent ==
    /\ (pc = "loop" /\ Len(queue) = Len(trades)) => StablySorted(queue, trades)
    /\ (pc = "done" /\ DistinctTimes(trades)) =>
          \A p \in Permutations(1..Len(trades)) :
             LET r == compute_symbol_trade_stats(symbol, Permuted(trades, p))
             IN  ~r.raised /\ r.stats = result

\* Three trades delivered out of time order, a buy and a sell among them,
\* have been replayed with a realized gain.
C10_Witness ==
    /\ pc = "done"
    /\ Len(trades) = 3
    /\ DistinctTimes(trades)
    /\ trades[1].time > trades[2].time
    /\ trades[2].time > trades[3].time
    /\ result[3] # Zero

\* The trades the loop has processed, in the order it processed them.
Processed ==
    LET all == sorted(trades)
    IN  SubSeq(all, 1, Len(all) - Len(queue))

NoLedger == [bought |-> Zero, sold |-> Zero]

\* The ledger of the replay of ts from position p: the sum of the costs of
\* the buys, qty*price + fee_quote, and the sum of the proceeds of the
\* executed sells, sell_qty*price - fee_quote.  A sell is executed when
\* what it can sell, min(qty, position_qty), is more than zero.
RECURSIVE Ledger(_, _, _, _, _)
Ledger(p, ts, base, quote, acc) ==
    IF ts = <<>> THEN acc
    ELSE LET t == Head(ts)
             s == RMin(R(t.qty), p.position_qty)
             cost == RAdd(RMul(R(t.qty), R(t.price)), fee_quote(t, quote))
             proceeds == RSub(RMul(s, R(t.price)), fee_quote(t, quote))
             next == IF t.isBuyer
                     THEN [acc EXCEPT !.bought = RAdd(acc.bought, cost)]
                     ELSE IF RLt(Zero, s)
                     THEN [acc EXCEPT !.sold = RAdd(acc.sold, proceeds)]
                     ELSE acc
         IN  Ledger(ReplayTrade(p, t, base, quote), Tail(ts), base, quote, next)

LedgerSoFar ==
    Ledger(InitialPosition, Processed, base_asset, quote_asset, NoLedger)

\* C12: cost conservation.  After every processed trade of any trade
\* sequence, position_cost plus the proceeds of the executed sells minus
\* realized_pnl equals the sum of the costs of the buys so far: sells,
\* clamped sells and skipped sells create and lose no cost.
C12_CostConserved ==
    pc \in {"loop", "done"} =>
        RSub(RAdd(pos.position_cost, LedgerSoFar.sold), pos.realized_pnl)
            = LedgerSoFar.bought

\* A sell with nothing to sell (skipped), a buy of 1 at 100 with a fee of 1
\* USDT, and a sell of 2 (clamped to 1) at 150 have been processed: the
\* buys cost 101, the sells brought 150, no cost is left and 49 is realized.
C12_Witness ==
    /\ pc = "loop"
    /\ queue = <<>>
    /\ symbol = BTCUSDT
    /\ trades = <<Fill(1, 150, FALSE, NoFee, 1),
                  Fill(1, 100, TRUE, <<1, USDT>>, 2),
                  Fill(2, 150, FALSE, NoFee, 3)>>
    /\ LedgerSoFar = [bought |-> R(101), sold |-> R(150)]
    /\ pos = [position_qty |-> Zero, position_cost |-> Zero,
              realized_pnl |-> R(49)]

(***************************************************************************)
(* aggregate_positions: inputs and steps.                                  *)
(***************************************************************************)
StatsUnused ==
    /\ symbol = <<>>
    /\ trades = <<>>
    /\ pc = "idle"
    /\ StatsIdle

\* The shapes of a balance record: which amount fields it has, and their
\* values.  Zero, negative and competing fields are among them.
EntryShapes ==
    {[quantity |-> <<0>>, free |-> <<5>>, amount |-> Absent, locked |-> <<0>>],
     [quantity |-> <<2>>, free |-> <<5>>, amount |-> Absent, locked |-> Absent],
     [quantity |-> Absent, free |-> <<2>>, amount |-> Absent, locked |-> <<1>>],
     [quantity |-> Absent, free |-> Absent, amount |-> <<3>>, locked |-> Absent],
     [quantity |-> Absent, free |-> Absent, amount |-> <<-3>>, locked |-> Absent]}

Entry(a, sh) ==
    [asset |-> a, quantity |-> sh.quantity, free |-> sh.free,
     amount |-> sh.amount, locked |-> sh.locked]

Entries ==
    {Entry(<<a>>, sh) : a \in {BTC, ETH}, sh \in EntryShapes}
    \cup {Entry(Absent, CHOOSE sh \in EntryShapes : sh.amount = <<3>>)}

RECURSIVE EntryLists(_)
EntryLists(n) ==
    IF n = 0 THEN {<<>>}
    ELSE {Append(s, e) : s \in EntryLists(n - 1), e \in Entries}

InitAggregate ==
    /\ StatsUnused
    /\ MainIdle
    /\ BuildIdle
    /\ AlertIdle
    /\ \E n \in 0..MaxEntries : \E k \in 0..n :
          sources \in {<<SubSeq(es, 1, k), SubSeq(es, k + 1, n)>> :
                          es \in EntryLists(n)}
    /\ pending = sources
    /\ entry = NoEntry
    /\ qty = Zero
    /\ holdings = <<>>
    /\ aggPc = "loop"
    /\ aggResult = <<>>

\* The inner loop's next record has no asset: continue.
AggSkip ==
    /\ aggPc = "loop"
    /\ pending # <<>> /\ Head(pending) # <<>>
    /\ NoAsset(Head(Head(pending)))
    /\ entry' = Head(Head(pending))
    /\ pending' = <<Tail(Head(pending))>> \o Tail(pending)
    /\ UNCHANGED <<sources, qty, holdings, aggPc, aggResult>>
    /\ UNCHANGED <<statsVars, buildVars, alertVars, mainVars>>

\* The inner loop's next record is added to its asset's total.
AggAdd ==
    /\ aggPc = "loop"
    /\ pending # <<>> /\ Head(pending) # <<>>
    /\ ~NoAsset(Head(Head(pending)))
    /\ entry' = Head(Head(pending))
    /\ qty' = EntryQty(entry')
    /\ holdings' = AddHolding(holdings, entry'.asset[1], qty')
    /\ pending' = <<Tail(Head(pending))>> \o Tail(pending)
    /\ UNCHANGED <<sources, aggPc, aggResult>>
    /\ UNCHANGED <<statsVars, buildVars, alertVars, mainVars>>

\* The inner loop is over: the outer loop takes the next source.
AggNextSource ==
    /\ aggPc = "loop"
    /\ pending # <<>> /\ Head(pending) = <<>>
    /\ pending' = Tail(pending)
    /\ UNCHANGED <<sources, entry, qty, holdings, aggPc, aggResult>>
    /\ UNCHANGED <<statsVars, buildVars, alertVars, mainVars>>

\* Both loops are over: the totals above zero are returned.
AggReturn ==
    /\ aggPc = "loop"
    /\ pending = <<>>
    /\ aggResult' = KeepPositive(holdings)
    /\ aggPc' = "done"
    /\ UNCHANGED <<sources, pending, entry, qty, holdings>>
    /\ UNCHANGED <<statsVars, buildVars, alertVars, mainVars>>

NextAggregate ==
    \/ AggSkip
    \/ AggAdd
    \/ AggNextSource
    \/ AggReturn

SpecAggregate == InitAggregate /\ [][NextAggregate]_vars

(***************************************************************************)
(* Properties of the aggregation.                                          *)
(***************************************************************************)
\* The amount of a record by Python's or: the first of quantity, free,
\* amount that is present and not zero (0 when there is none), plus locked.
FirstNonZeroAmount(e) ==
    LET primary ==
            IF e.quantity # <<>> /\ e.quantity # <<0>> THEN e.quantity[1]
            ELSE IF e.free # <<>> /\ e.free # <<0>> THEN e.free[1]
            ELSE IF e.amount # <<>> /\ e.amount # <<0>> THEN e.amount[1]
            ELSE 0
        locked == IF e.locked # <<>> THEN e.locked[1] ELSE 0
    IN  primary + locked

\* The amount of a record by the first of quantity, free, amount that is
\* present, whatever its value, plus locked.
FirstPresentAmount(e) ==
    LET primary ==
            IF e.quantity # <<>> THEN e.quantity[1]
            ELSE IF e.free # <<>> THEN e.free[1]
            ELSE IF e.amount # <<>> THEN e.amount[1]
            ELSE 0
        locked == IF e.locked # <<>> THEN e.locked[1] ELSE 0
    IN  primary + locked

RECURSIVE TotalOf(_, _)
\* The sum of the amounts of the records of asset a in the list es.
TotalOf(a, es) ==
    IF es = <<>> THEN 0
    ELSE (IF Head(es).asset = <<a>> THEN FirstNonZeroAmount(Head(es)) ELSE 0)
         + TotalOf(a, Tail(es))

\* Every record of every source, in order.
AllEntries == sources[1] \o sources[2]

\* C2: the returned holdings hold no asset with quantity <= 0: an asset is
\* in them exactly when the sum of its records' amounts over all sources is
\* > 0, and its value is that sum.
C2_OnlyPositiveTotals ==
    aggPc = "done" =>
       /\ \A i \in 1..Len(aggResult) : RLt(Zero, aggResult[i].val)
       /\ \A i, j \in 1..Len(aggResult) :
             aggResult[i].key = aggResult[j].key => i = j
       /\ \A a \in {BTC, ETH, <<>>} :
             /\ DictHas(aggResult, a) <=> TotalOf(a, AllEntries) > 0
             /\ DictHas(aggResult, a) =>
                   DictGet(aggResult, a, Zero) = R(TotalOf(a, AllEntries))

\* An aggregation has returned one asset and dropped another, which has
\* records that sum to zero or less.
C2_Witness ==
    /\ aggPc = "done"
    /\ Len(aggResult) = 1
    /\ \E a \in {BTC, ETH} :
          /\ \E i \in 1..Len(AllEntries) : AllEntries[i].asset = <<a>>
          /\ TotalOf(a, AllEntries) <= 0
          /\ ~DictHas(aggResult, a)

\* A record with an asset has just been added.
JustAdded == aggPc = "loop" /\ ~NoAsset(entry)

\* C5: the amount of a record is the first field present among quantity,
\* free, amount, whatever its value (plus locked): quantity=0, free=5
\* counts 0.
C5_FirstFieldPresent ==
    JustAdded => qty = R(FirstPresentAmount(entry))

\* C5 as amended: the amount of a record is the first field among quantity,
\* free, amount that is present and not zero (plus locked): quantity=0,
\* free=5 counts 5.
C5_FirstFieldNonZero ==
    /\ JustAdded => qty = R(FirstNonZeroAmount(entry))
    /\ (JustAdded /\ entry.quantity = <<0>> /\ entry.free = <<5>>
           /\ entry.locked = <<0>>) => qty = R(5)

\* The record with quantity=0 and free=5 has been added as 5.
C5_Witness ==
    /\ JustAdded
    /\ entry.quantity = <<0>> /\ entry.free = <<5>> /\ entry.locked = <<0>>
    /\ qty = R(5)
    /\ DictGet(holdings, entry.asset[1], Zero) = R(5)

(***************************************************************************)
(* build_portfolio_rows: inputs and steps.                                 *)
(***************************************************************************)
\* An asset code in lower case: no symbol of the price map starts with it.
btc == <<"b", "t", "c">>
BTCBUSD == BTC \o BUSD
ETHBTC == ETH \o BTC

HeldAssets == {BTC, ETH, btc}

\* The quantity held of each asset.
QuantityOf(a) == IF a = BTC THEN R(1) ELSE IF a = ETH THEN R(3) ELSE R(2)

Symbols == {BTCUSDT, BTCBUSD, BTCDAI, ETHBTC}

\* The last price of each symbol.
PriceOf(sym) ==
    IF sym = BTCUSDT THEN R(50000)
    ELSE IF sym = BTCBUSD THEN R(50010)
    ELSE IF sym = BTCDAI THEN R(49990)
    ELSE <<1, 20>>

Injective(f, n) == \A i, j \in 1..n : i # j => f[i] # f[j]

\* The holdings of n assets, in every order.
HoldingsOf(n) ==
    {[i \in 1..n |-> [key |-> f[i], val |-> QuantityOf(f[i])]] :
        f \in {g \in [1..n -> HeldAssets] : Injective(g, n)}}

\* The price maps of n symbols, in every order.
PriceMapsOf(n) ==
    {[i \in 1..n |-> [key |-> f[i], val |-> PriceOf(f[i])]] :
        f \in {g \in [1..n -> Symbols] : Injective(g, n)}}

\* What the trade lookup has for a symbol: no entry, no trade, a buy and a
\* sell of part of it, a buy and a sell of all of it.
Histories ==
    {[present |-> FALSE, trades |-> <<>>],
     [present |-> TRUE, trades |-> <<>>],
     [present |-> TRUE,
      trades |-> <<Fill(2, 100, TRUE, NoFee, 1), Fill(1, 150, FALSE, NoFee, 2)>>],
     [present |-> TRUE,
      trades |-> <<Fill(1, 150, FALSE, NoFee, 2), Fill(1, 100, TRUE, NoFee, 1)>>]}

\* The trade lookup that has history h[i] for the i-th symbol of pm.
LookupOf(pm, h) ==
    LET all == [i \in 1..Len(pm) |->
                   [key |-> pm[i].key, val |-> h[i].trades, present |-> h[i].present]]
        kept == SelectSeq(all, LAMBDA e : e.present)
    IN  [i \in 1..Len(kept) |-> [key |-> kept[i].key, val |-> kept[i].val]]

InitBuild ==
    /\ StatsUnused
    /\ MainIdle
    /\ AggIdle
    /\ AlertIdle
    /\ \E n \in 0..MaxHeld : build_holdings \in HoldingsOf(n)
    /\ \E n \in 0..MaxSymbols : price_map \in PriceMapsOf(n)
    /\ \E h \in [1..Len(price_map) -> Histories] :
          trade_lookup = LookupOf(price_map, h)
    /\ quote_symbol \in {USDT, BUSD}
    /\ todo = build_holdings
    /\ rows = <<>>
    /\ totals = NoTotals
    /\ summary = SummaryOf(NoTotals)
    /\ buildPc = "loop"

\* symbol = match_symbol(asset), for the loop's next asset.
NextSymbol == match_symbol(Head(todo).key, price_map, quote_symbol)

\* compute_symbol_trade_stats(symbol, trade_lookup.get(symbol, []))
NextStats ==
    compute_symbol_trade_stats(NextSymbol[1],
                               DictGet(trade_lookup, NextSymbol[1], <<>>))

\* The next asset matches no symbol: continue.
BuildSkip ==
    /\ buildPc = "loop"
    /\ todo # <<>>
    /\ NoSymbol(NextSymbol)
    /\ todo' = Tail(todo)
    /\ UNCHANGED <<build_holdings, price_map, trade_lookup, quote_symbol,
                   rows, totals, summary, buildPc>>
    /\ UNCHANGED <<statsVars, aggVars, alertVars, mainVars>>

\* The replay of the next asset's trades raises: so does the build.
BuildRaise ==
    /\ buildPc = "loop"
    /\ todo # <<>>
    /\ ~NoSymbol(NextSymbol)
    /\ NextStats.raised
    /\ buildPc' = "raised"
    /\ UNCHANGED <<build_holdings, price_map, trade_lookup, quote_symbol,
                   todo, rows, totals, summary>>
    /\ UNCHANGED <<statsVars, aggVars, alertVars, mainVars>>

\* The next asset's row is built and added to the totals.
BuildRow ==
    /\ buildPc = "loop"
    /\ todo # <<>>
    /\ ~NoSymbol(NextSymbol)
    /\ ~NextStats.raised
    /\ LET current_price == DictGet(price_map, NextSymbol[1], Zero)
           row == Position(Head(todo).key, Head(todo).val, current_price,
                           NextStats.stats)
       IN  /\ rows' = Append(rows, row)
           /\ totals' = AddTotals(totals, row)
    /\ todo' = Tail(todo)
    /\ UNCHANGED <<build_holdings, price_map, trade_lookup, quote_symbol,
                   summary, buildPc>>
    /\ UNCHANGED <<statsVars, aggVars, alertVars, mainVars>>

\* The loop is over: the summary is made and returned with the rows.
BuildReturn ==
    /\ buildPc = "loop"
    /\ todo = <<>>
    /\ summary' = SummaryOf(totals)
    /\ buildPc' = "done"
    /\ UNCHANGED <<build_holdings, price_map, trade_lookup, quote_symbol,
                   todo, rows, totals>>
    /\ UNCHANGED <<statsVars, aggVars, alertVars, mainVars>>

NextBuild ==
    \/ BuildSkip
    \/ BuildRaise
    \/ BuildRow
    \/ BuildReturn

SpecBuild == InitBuild /\ [][NextBuild]_vars

(***************************************************************************)
(* Properties of the build.                                                *)
(***************************************************************************)
\* C6: build_portfolio_rows never fails with split_symbol's error: for any
\* holdings, price map and trade lookup it completes and returns rows and a
\* summary.
C6_BuildNeverRaises == buildPc # "raised"

\* The asset resolves to a symbol of the price map.
Resolves(a) ==
    \/ \E i \in 1..Len(price_map) : price_map[i].key = a \o quote_symbol
    \/ \E i \in 1..Len(price_map) : StartsWith(price_map[i].key, a)

\* The loop's next asset resolves to a symbol whose trade list is empty or
\* absent from the trade lookup.
NoHistoryNext ==
    /\ buildPc = "loop"
    /\ todo # <<>>
    /\ Resolves(Head(todo).key)
    /\ \A i \in 1..Len(trade_lookup) :
          trade_lookup[i].key = NextSymbol[1] => trade_lookup[i].val = <<>>

\* C7: for a held asset that resolves to a symbol and has an empty or
\* absent trade list the build emits a row with invested = quantity *
\* current_price, average_buy_price = 0, unrealized_pnl = 0, roi_pct = 0,
\* realized_pnl = 0, and raises no error.
C7_BreakEvenRow ==
    [][NoHistoryNext =>
          LET a == Head(todo).key
              q == Head(todo).val
              k == CHOOSE i \in 1..Len(price_map) : price_map[i].key = NextSymbol[1]
              price == price_map[k].val
          IN  /\ buildPc' = "loop"
              /\ rows' = Append(rows,
                    [asset |-> a,
                     quantity |-> q,
                     average_buy_price |-> Zero,
                     invested |-> RMul(q, price),
                     current_price |-> price,
                     current_value |-> RMul(q, price),
                     unrealized_pnl |-> Zero,
                     roi_pct |-> Zero,
                     realized_pnl |-> Zero])]_vars

\* The build of holdings {BTC: 1} with price map {BTCUSDT: 50000} and no
\* trades has returned its one row, invested 50000.
C7_Witness ==
    /\ buildPc = "done"
    /\ build_holdings = <<[key |-> BTC, val |-> R(1)]>>
    /\ price_map = <<[key |-> BTCUSDT, val |-> R(50000)]>>
    /\ trade_lookup = <<>>
    /\ Len(rows) = 1
    /\ rows[1].invested = R(50000)
    /\ rows[1].average_buy_price = Zero
    /\ rows[1].unrealized_pnl = Zero
    /\ rows[1].roi_pct = Zero

RECURSIVE SumOf(_, _)
\* The sum of a field over the rows rs.
SumOf(rs, fld) ==
    IF rs = <<>> THEN Zero ELSE RAdd(Head(rs)[fld], SumOf(Tail(rs), fld))

\* The assets of the holdings items hs that resolve, in their order.
ResolvedAssets(hs) ==
    LET kept == SelectSeq(hs, LAMBDA kv : Resolves(kv.key))
    IN  [i \in 1..Len(kept) |-> kept[i].key]

\* C9: the summary's totals are the sums over exactly the emitted rows
\* (invested, current_value, realized_pnl, unrealized_pnl), and an asset
\* that resolves to no symbol has no row and adds nothing to a total.
C9_SummaryIsSumOfRows ==
    /\ buildPc \in {"loop", "done"} =>
          /\ totals.total_invested = SumOf(rows, "invested")
          /\ totals.total_value = SumOf(rows, "current_value")
          /\ totals.realized_total = SumOf(rows, "realized_pnl")
          /\ [i \in 1..Len(rows) |-> rows[i].asset]
                = ResolvedAssets(SubSeq(build_holdings, 1,
                                        Len(build_holdings) - Len(todo)))
    /\ buildPc = "done" =>
          /\ summary.total_invested = SumOf(rows, "invested")
          /\ summary.total_value = SumOf(rows, "current_value")
          /\ summary.realized_pnl = SumOf(rows, "realized_pnl")
          /\ summary.net_unrealized = SumOf(rows, "unrealized_pnl")
          /\ [i \in 1..Len(rows) |-> rows[i].asset] = ResolvedAssets(build_holdings)

\* A build of two assets has returned one row, with realized and unrealized
\* P&L, and left the asset that resolves to no symbol out.
C9_Witness ==
    /\ buildPc = "done"
    /\ Len(build_holdings) = 2
    /\ Len(rows) = 1
    /\ summary.realized_pnl # Zero
    /\ summary.net_unrealized # Zero
    /\ summary.total_invested = rows[1].invested

(***************************************************************************)
(* evaluate_alerts: inputs and steps.                                      *)
(***************************************************************************)
\* The price of every row the alerts are evaluated on.
AlertPrice == R(100)

\* A threshold is missing, zero (disabled), below, at or above the price.
Thresholds == {<<>>, <<0>>, <<90>>, <<100>>, <<120>>}

BtcStrategies ==
    [low_buy_1 : Thresholds, low_buy_2 : Thresholds,
     high_sell_1 : Thresholds, high_sell_2 : Thresholds]

EthStrategy ==
    [low_buy_1 |-> <<120>>, low_buy_2 |-> <<>>, high_sell_1 |-> <<0>>,
     high_sell_2 |-> <<120>>]

\* No strategy at all, one for BTC, or one for BTC and one for ETH.
StrategyMaps ==
    {<<>>}
    \cup {<<[key |-> BTC, val |-> st]>> : st \in BtcStrategies}
    \cup {<<[key |-> BTC, val |-> st], [key |-> ETH, val |-> EthStrategy]>> :
             st \in BtcStrategies}

\* The rows of n assets, repeats allowed.
AlertRows(n) ==
    {[i \in 1..n |-> Position(f[i], R(1), AlertPrice, <<Zero, Zero, Zero>>)] :
        f \in [1..n -> HeldAssets]}

InitAlerts ==
    /\ StatsUnused
    /\ MainIdle
    /\ AggIdle
    /\ build_holdings = <<>>
    /\ price_map = <<>>
    /\ trade_lookup = <<>>
    /\ quote_symbol = <<>>
    /\ todo = <<>>
    /\ \E n \in 0..MaxRows : rows \in AlertRows(n)
    /\ totals = NoTotals
    /\ summary = SummaryOf(NoTotals)
    /\ buildPc = "idle"
    /\ strategies \in StrategyMaps
    /\ alertTodo = rows
    /\ alerts = <<>>
    /\ alertPc = "loop"

\* if not strat: continue
AlertSkip ==
    /\ alertPc = "loop"
    /\ alertTodo # <<>>
    /\ StrategyOf(strategies, Head(alertTodo).asset) = NoStrategy
    /\ alertTodo' = Tail(alertTodo)
    /\ UNCHANGED <<strategies, alerts, alertPc>>
    /\ UNCHANGED <<statsVars, aggVars, buildVars, mainVars>>

\* The four tests of the next row.
AlertRow ==
    /\ alertPc = "loop"
    /\ alertTodo # <<>>
    /\ StrategyOf(strategies, Head(alertTodo).asset) # NoStrategy
    /\ alerts' = alerts \o RowAlerts(Head(alertTodo),
                                     StrategyOf(strategies, Head(alertTodo).asset))
    /\ alertTodo' = Tail(alertTodo)
    /\ UNCHANGED <<strategies, alertPc>>
    /\ UNCHANGED <<statsVars, aggVars, buildVars, mainVars>>

\* return alerts
AlertReturn ==
    /\ alertPc = "loop"
    /\ alertTodo = <<>>
    /\ alertPc' = "done"
    /\ UNCHANGED <<strategies, alertTodo, alerts>>
    /\ UNCHANGED <<statsVars, aggVars, buildVars, mainVars>>

NextAlerts ==
    \/ AlertSkip
    \/ AlertRow
    \/ AlertReturn

SpecAlerts == InitAlerts /\ [][NextAlerts]_vars

(***************************************************************************)
(* Properties of the alerts.                                               *)
(***************************************************************************)
ThresholdFields == <<"low_buy_1", "low_buy_2", "high_sell_1", "high_sell_2">>

\* The threshold of field k of the strategy of the row's uppercased asset:
\* <<>> when there is no strategy or no such field.
ThresholdAt(row, k) ==
    LET hits == {i \in 1..Len(strategies) : strategies[i].key = Upper(row.asset)}
    IN  IF hits = {} THEN <<>>
        ELSE strategies[CHOOSE i \in hits : TRUE].val[ThresholdFields[k]]

\* The (row, threshold) pair fires.
Fires(row, k) ==
    LET th == ThresholdAt(row, k)
    IN  /\ th # <<>>
        /\ th # <<0>>
        /\ IF k <= 2
           THEN RLe(row.current_price, R(th[1]))
           ELSE RLe(R(th[1]), row.current_price)

\* The message of a pair that fires.
Expected(row, k) ==
    [asset |-> row.asset,
     text |-> <<"reached Low Buy 1 at", "reached Low Buy 2 at",
                "hit High Sell 1 at", "hit High Sell 2 at">>[k],
     price |-> row.current_price,
     cmp |-> IF k <= 2 THEN "<=" ELSE ">=",
     threshold |-> ThresholdAt(row, k)[1]]

RECURSIVE ExpectedFrom(_, _, _)
\* The messages of the pairs that fire, from pair (i, k) on, row by row and
\* within a row in the order of ThresholdFields.
ExpectedFrom(rs, i, k) ==
    IF i > Len(rs) THEN <<>>
    ELSE IF k > 4 THEN ExpectedFrom(rs, i + 1, 1)
    ELSE (IF Fires(rs[i], k) THEN <<Expected(rs[i], k)>> ELSE <<>>)
         \o ExpectedFrom(rs, i, k + 1)

\* C8: evaluate_alerts emits exactly one message for each (row, threshold)
\* pair whose row's uppercased asset has a strategy, whose threshold is
\* nonzero, and whose price is <= the threshold (low_buy_1, low_buy_2) or >=
\* it (high_sell_1, high_sell_2); the four fire independently, a zero or
\* missing threshold never fires, and the messages are in row order, then
\* low_buy_1, low_buy_2, high_sell_1, high_sell_2.
C8_AlertsPerThreshold ==
    /\ alertPc = "done" => alerts = ExpectedFrom(rows, 1, 1)
    /\ alertPc = "loop" =>
          alerts = ExpectedFrom(SubSeq(rows, 1, Len(rows) - Len(alertTodo)), 1, 1)

\* All four thresholds of the first row, whose asset is in lower case, have
\* fired, and one of the second row.
C8_Witness ==
    /\ alertPc = "done"
    /\ Len(rows) = 2
    /\ rows[1].asset = btc
    /\ Len(alerts) = 5
    /\ \A k \in 1..4 : alerts[k].asset = btc
    /\ alerts[1].cmp = "<=" /\ alerts[4].cmp = ">="

(***************************************************************************)
(* main of the calling layer: from the holdings to the build.              *)
(***************************************************************************)
\* What the trade source answers for a symbol: no trade (or a failure,
\* which main turns into no trade), or a buy and a sell of part of it.
FetchedTrades ==
    {<<>>,
     <<Fill(2, 100, TRUE, NoFee, 1), Fill(1, 150, FALSE, NoFee, 2)>>}

\* trade["baseAsset"] = base; trade["quoteAsset"] = quote, for every trade.
Tagged(ts, base, quote) ==
    [i \in 1..Len(ts) |-> ts[i] @@ [baseAsset |-> base, quoteAsset |-> quote]]

\* The asset codes of the exchange are in upper case.
ExchangeAssets == {BTC, ETH}

\* The holdings aggregate_positions returned to main: n assets of the
\* exchange, in every order.
MainHoldingsOf(n) ==
    {h \in HoldingsOf(n) : \A i \in 1..n : h[i].key \in ExchangeAssets}

\* main has its holdings (not empty), the price map and the preferred
\* quote, and is about to match the holdings to symbols.
InitMain ==
    /\ StatsUnused
    /\ AggIdle
    /\ AlertIdle
    /\ \E n \in 1..MaxHeld : build_holdings \in MainHoldingsOf(n)
    /\ \E n \in 0..MaxSymbols : price_map \in PriceMapsOf(n)
    /\ quote_symbol \in {USDT, BUSD}
    /\ trade_lookup = <<>>
    /\ todo = <<>>
    /\ rows = <<>>
    /\ totals = NoTotals
    /\ summary = SummaryOf(NoTotals)
    /\ buildPc = "idle"
    /\ symbols = <<>>
    /\ mainTodo = build_holdings
    /\ mainPc = "symbols"

\* for asset in holdings: symbol = guess_symbol(...); if symbol: store it.
MainGuess ==
    /\ mainPc = "symbols"
    /\ mainTodo # <<>>
    /\ LET asset == Head(mainTodo).key
           guessed == guess_symbol(asset, price_map, quote_symbol)
       IN  symbols' = IF NoSymbol(guessed) THEN symbols
                      ELSE DictSet(symbols, asset, guessed[1])
    /\ mainTodo' = Tail(mainTodo)
    /\ UNCHANGED mainPc
    /\ UNCHANGED <<statsVars, aggVars, buildVars, alertVars>>

\* if not symbols: st.stop()
MainStop ==
    /\ mainPc = "symbols"
    /\ mainTodo = <<>>
    /\ symbols = <<>>
    /\ mainPc' = "stopped"
    /\ UNCHANGED <<symbols, mainTodo>>
    /\ UNCHANGED <<statsVars, aggVars, buildVars, alertVars>>

\* Some asset has a symbol: the loop over symbols.items() begins.
MainSymbolsDone ==
    /\ mainPc = "symbols"
    /\ mainTodo = <<>>
    /\ symbols # <<>>
    /\ mainTodo' = symbols
    /\ mainPc' = "trades"
    /\ UNCHANGED symbols
    /\ UNCHANGED <<statsVars, aggVars, buildVars, alertVars>>

\* One iteration: the trades of the symbol are fetched, tagged with the
\* base and quote of the symbol (of the asset and the preferred quote when
\* split_symbol raises) and stored under the symbol.
MainFetch ==
    /\ mainPc = "trades"
    /\ mainTodo # <<>>
    /\ \E fetched \in FetchedTrades :
          LET asset == Head(mainTodo).key
              sym == Head(mainTodo).val
              sp == split_symbol(sym)
              base == IF sp.raised THEN asset ELSE sp.base
              quote == IF sp.raised THEN quote_symbol ELSE sp.quote
          IN  trade_lookup' = DictSet(trade_lookup, sym,
                                      Tagged(fetched, base, quote))
    /\ mainTodo' = Tail(mainTodo)
    /\ UNCHANGED <<symbols, mainPc>>
    /\ UNCHANGED <<build_holdings, price_map, quote_symbol, todo, rows,
                   totals, summary, buildPc>>
    /\ UNCHANGED <<statsVars, aggVars, alertVars>>

\* build_portfolio_rows(holdings, price_map, trade_lookup, quote_symbol)
\* is called: its locals are set and its loop begins.
MainBuild ==
    /\ mainPc = "trades"
    /\ mainTodo = <<>>
    /\ mainPc' = "build"
    /\ rows' = <<>>
    /\ totals' = NoTotals
    /\ todo' = build_holdings
    /\ buildPc' = "loop"
    /\ UNCHANGED <<symbols, mainTodo>>
    /\ UNCHANGED <<build_holdings, price_map, trade_lookup, quote_symbol,
                   summary>>
    /\ UNCHANGED <<statsVars, aggVars, alertVars>>

NextMain ==
    \/ MainGuess
    \/ MainStop
    \/ MainSymbolsDone
    \/ MainFetch
    \/ MainBuild
    \/ BuildSkip
    \/ BuildRaise
    \/ BuildRow
    \/ BuildReturn

SpecMain == InitMain /\ [][NextMain]_vars

(***************************************************************************)
(* Properties of main with the build.                                      *)
(***************************************************************************)
\* The symbol main fetched and stored the asset's trades under: <<>> when
\* it fetched none for the asset.
FetchedUnder(asset) ==
    IF DictHas(symbols, asset) THEN <<DictGet(symbols, asset, <<>>)>> ELSE <<>>

\* The build is at an asset of the holdings main passed to it.
BuildingNext == mainPc = "build" /\ buildPc = "loop" /\ todo # <<>>

\* C11: for every held asset, the symbol the build resolves for the asset
\* (match_symbol), and uses to look up its trades and its price, is the
\* symbol under which main fetched and stored the asset's trades
\* (guess_symbol).
C11_SameSymbolAsFetched ==
    BuildingNext => NextSymbol = FetchedUnder(Head(todo).key)

\* The consequence C11 draws: trades main fetched for an asset are the
\* trades the build replays for it.
C11_FetchedHistoryUsed ==
    BuildingNext /\ FetchedUnder(Head(todo).key) # <<>>
        => /\ ~NoSymbol(NextSymbol)
           /\ DictGet(trade_lookup, NextSymbol[1], <<>>)
                 = DictGet(trade_lookup, FetchedUnder(Head(todo).key)[1], <<>>)

=============================================================================
